---- MODULE Spec2Model ----
(***************************************************************************)
(* Sci-shot: marking points on a screenshot, fitting regression lines and  *)
(* calibrating a screen -> real-world similarity transform.                *)
(*                                                                         *)
(* Two snapshots of the engine are modelled:                               *)
(*   src/src/main.rs            the application (struct App, its update    *)
(*                              handler and the types it defines inline);  *)
(*   src/src/point_handling.rs  the extracted point/transform/regression   *)
(*                              library (definitions prefixed ph_).        *)
(*                                                                         *)
(* f32 values are modelled as extended rationals [n, d]: d > 0 is the      *)
(* finite value n/d in lowest terms, 1/0 is +inf, -1/0 is -inf and 0/0 is  *)
(* NaN.  Rounding and signed zeros are not modelled.                       *)
(***************************************************************************)
EXTENDS Integers, Sequences, FiniteSets, TLC

(***************************************************************************)
(* Bounds of the model.                                                    *)
(***************************************************************************)
MaxLines == 1
MaxBuffered == 3
MaxCoord == 1
MaxPts == 3
MaxApplied == 2

(***************************************************************************)
(* f32 arithmetic.                                                         *)
(***************************************************************************)
Abs(i) == IF i < 0 THEN -i ELSE i

Sign(i) == IF i < 0 THEN -1 ELSE IF i > 0 THEN 1 ELSE 0

RECURSIVE Gcd(_, _)
Gcd(a, b) == IF b = 0 THEN a ELSE Gcd(b, a % b)

\* the f32 with value n/d (IEEE: x/0 is +-inf for x # 0 and NaN for x = 0)
Norm(n, d) ==
    IF d = 1 THEN [n |-> n, d |-> 1]
    ELSE IF d = 0 THEN [n |-> Sign(n), d |-> 0]
    ELSE LET g == Gcd(Abs(n), Abs(d))
             s == Sign(d)
         IN  [n |-> s * (n \div g), d |-> s * (d \div g)]

F32(i) == [n |-> i, d |-> 1]

NaN == [n |-> 0, d |-> 0]

IsFinite(a) == a.d # 0

IsNaN(a) == a.d = 0 /\ a.n = 0

FMul(a, b) == Norm(a.n * b.n, a.d * b.d)

FAdd(a, b) ==
    IF a.d = 0 /\ b.d = 0
    THEN (IF a.n = b.n THEN a ELSE NaN)
    ELSE Norm(a.n * b.d + b.n * a.d, a.d * b.d)

FNeg(a) == [n |-> -a.n, d |-> a.d]

FSub(a, b) == FAdd(a, FNeg(b))

FDiv(a, b) == FMul(a, Norm(b.d, b.n))

\* OrderedFloat's total order on x, restricted to the values a key can take
\* here (NaN sorts above every other value)
FLess(a, b) ==
    IF IsNaN(a) THEN FALSE
    ELSE IF IsNaN(b) THEN TRUE
    ELSE IF a.d = 0 \/ b.d = 0 THEN
        (IF a.d = 0 /\ b.d = 0 THEN a.n < b.n
         ELSE IF a.d = 0 THEN a.n < 0 ELSE b.n > 0)
    ELSE a.n * b.d < b.n * a.d

\* iter().map(f).sum::<f32>() over a HashSet; f is given as a function on S
RECURSIVE SumF(_, _)
SumF(S, f) ==
    IF S = {} THEN F32(0)
    ELSE LET p == CHOOSE q \in S : TRUE
         IN  FAdd(f[p], SumF(S \ {p}, f))

(***************************************************************************)
(* Value types.                                                            *)
(***************************************************************************)
PointCoords(x, y) == [x |-> x, y |-> y]

Pt(i, j) == PointCoords(F32(i), F32(j))

PointTransform(alpha, beta, dx, dy) ==
    [alpha |-> alpha, beta |-> beta, dx |-> dx, dy |-> dy]

TI(a, b, dx, dy) == PointTransform(F32(a), F32(b), F32(dx), F32(dy))

\* main.rs: the literal in App::default
main_identity == TI(1, 0, 0, 0)

\* point_handling.rs: PointTransform::identity()
ph_identity == TI(1, 0, 0, 0)

(***************************************************************************)
(* Transformable.                                                          *)
(***************************************************************************)
\* main.rs: impl Transformable for PointCoords
main_transform(p, t) ==
    PointCoords(
        FAdd(FSub(FMul(t.alpha, p.x), FMul(t.beta, p.y)), t.dx),
        FAdd(FAdd(FMul(t.beta, p.x), FMul(t.alpha, p.y)), t.dy))

\* main.rs: impl Transformable for UniquePointBuf
main_transform_buf(points, t) == { main_transform(p, t) : p \in points }

\* point_handling.rs: impl Transformable for PointCoords
\*   m = [[alpha, -beta], [beta, alpha]], p = [x, -y], result m * p^T + t^T
ph_transform(p, t) ==
    LET px == p.x
        py == FNeg(p.y)
    IN  PointCoords(
            FAdd(FAdd(FMul(t.alpha, px), FMul(FNeg(t.beta), py)), t.dx),
            FAdd(FAdd(FMul(t.beta, px), FMul(t.alpha, py)), t.dy))

\* point_handling.rs: impl Transformable for UniquePointBuf
ph_transform_buf(points, t) == { ph_transform(p, t) : p \in points }

(***************************************************************************)
(* Least-squares fit.                                                      *)
(***************************************************************************)
\* a fitter that answers the zero line for a set of fewer than 2 points
get_regression_line_clamped(points) ==
    IF Cardinality(points) < 2 THEN << F32(0), F32(0) >>
    ELSE LET n == F32(Cardinality(points))
             sum_x == SumF(points, [p \in points |-> p.x])
             sum_y == SumF(points, [p \in points |-> p.y])
             sum_x_squared == SumF(points, [p \in points |-> FMul(p.x, p.x)])
             sum_xy == SumF(points, [p \in points |-> FMul(p.x, p.y)])
             slope == FDiv(FSub(FMul(n, sum_xy), FMul(sum_x, sum_y)),
                           FSub(FMul(n, sum_x_squared), FMul(sum_x, sum_x)))
             intercept == FDiv(FSub(sum_y, FMul(slope, sum_x)), n)
         IN  <<slope, intercept>>

\* RegressionLineSegment::get_regression_line (the same text in both files)
get_regression_line(points) ==
    LET n == F32(Cardinality(points))
        sum_x == SumF(points, [p \in points |-> p.x])
        sum_y == SumF(points, [p \in points |-> p.y])
        sum_x_squared == SumF(points, [p \in points |-> FMul(p.x, p.x)])
        sum_xy == SumF(points, [p \in points |-> FMul(p.x, p.y)])
        slope == FDiv(FSub(FMul(n, sum_xy), FMul(sum_x, sum_y)),
                      FSub(FMul(n, sum_x_squared), FMul(sum_x, sum_x)))
        intercept == FDiv(FSub(sum_y, FMul(slope, sum_x)), n)
    IN  <<slope, intercept>>

(***************************************************************************)
(* point_handling.rs: calibration.                                         *)
(***************************************************************************)
\* M without row i and column j
Minor(M, i, j) ==
    [r \in 1..(Len(M) - 1) |->
        [c \in 1..(Len(M) - 1) |->
            M[IF r < i THEN r ELSE r + 1][IF c < j THEN c ELSE c + 1]]]

RECURSIVE Det(_)
RECURSIVE DetRow(_, _)
\* the terms j..n of the expansion of Det(M) along the first row
DetRow(M, j) ==
    IF j > Len(M) THEN F32(0)
    ELSE LET term == FMul(M[1][j], Det(Minor(M, 1, j)))
         IN  FAdd(IF j % 2 = 1 THEN term ELSE FNeg(term), DetRow(M, j + 1))

Det(M) == IF Len(M) = 1 THEN M[1][1] ELSE DetRow(M, 1)

ReplaceCol(M, j, b) ==
    [r \in 1..Len(M) |-> [c \in 1..Len(M) |-> IF c = j THEN b[r] ELSE M[r][c]]]

PosInf == [n |-> 1, d |-> 0]

\* mtx.full_piv_lu().solve(rhs): the set of vectors the call can return.  A
\* nonsingular system has one solution (any direct solver returns it, up to
\* rounding).  faer reports no singularity: on a singular matrix the
\* substitution divides by the zero pivots and the vector is non-finite.
full_piv_lu_solve(mtx, rhs) ==
    IF Det(mtx) # F32(0)
    THEN { [j \in 1..Len(mtx) |-> FDiv(Det(ReplaceCol(mtx, j, rhs)), Det(mtx))] }
    ELSE [1..Len(mtx) -> {NaN, PosInf}]

\* PointTransform::interpolate_from_point_pairs: the set of transforms the
\* call can return
ph_interpolate_from_point_pairs(p1_screen, p1_rw, p2_screen, p2_rw) ==
    LET mtx == << << p1_screen.x, p1_screen.y, F32(1), F32(0) >>,
                  << FNeg(p1_screen.y), p1_screen.x, F32(0), F32(1) >>,
                  << p2_screen.x, p2_screen.y, F32(1), F32(0) >>,
                  << FNeg(p2_screen.y), p2_screen.x, F32(0), F32(1) >> >>
        rhs == << p1_rw.x, p1_rw.y, p2_rw.x, p2_rw.y >>
    IN  { PointTransform(x[1], x[2], x[3], x[4]) : x \in full_piv_lu_solve(mtx, rhs) }

(***************************************************************************)
(* point_handling.rs: RegressionLineSegment.                               *)
(***************************************************************************)
\* RegressionLineSegment::new
ph_new(points) ==
    LET fit == get_regression_line(points)
    IN  [transformed_slope |-> fit[1],
         transformed_intercept |-> fit[2],
         transform |-> ph_identity,
         screen_points |-> points]

\* a transform_line that overwrites screen_points with the mapped set
ph_transform_line_in_place(self, transform) ==
    LET transformed_points == ph_transform_buf(self.screen_points, transform)
        fit == get_regression_line(transformed_points)
    IN  [self EXCEPT !.transform = transform,
                     !.screen_points = transformed_points,
                     !.transformed_slope = fit[1],
                     !.transformed_intercept = fit[2]]

\* RegressionLineSegment::transform_line
ph_transform_line(self, transform) ==
    LET transformed_points == ph_transform_buf(self.screen_points, transform)
        fit == get_regression_line(transformed_points)
    IN  [self EXCEPT !.transform = transform,
                     !.transformed_slope = fit[1],
                     !.transformed_intercept = fit[2]]

\* ScreenLineSegment::transform_line: only the regressor is touched
ScreenLineSegment_transform_line(self, transform) ==
    [self EXCEPT !.regressor = ph_transform_line(@, transform)]

(***************************************************************************)
(* main.rs: RegressionLineSegment and BoundedVecDeque.                     *)
(***************************************************************************)
NUM_CALIBRATION_POINTS == 2

\* the orders in which a HashSet's iter() can yield its members
IterOrders(points) ==
    { o \in [1..Cardinality(points) -> points] :
        \A i, j \in DOMAIN o : i # j => o[i] # o[j] }

\* Iterator::min_by_key(|p| p.x): the first of the minimal elements
min_by_key_x(o) ==
    o[CHOOSE i \in DOMAIN o :
        /\ \A j \in DOMAIN o : ~FLess(o[j].x, o[i].x)
        /\ \A j \in DOMAIN o : (j < i) => FLess(o[i].x, o[j].x)]

\* Iterator::max_by_key(|p| p.x): the last of the maximal elements
max_by_key_x(o) ==
    o[CHOOSE i \in DOMAIN o :
        /\ \A j \in DOMAIN o : ~FLess(o[i].x, o[j].x)
        /\ \A j \in DOMAIN o : (j > i) => FLess(o[j].x, o[i].x)]

\* main.rs: RegressionLineSegment::new; order is the iteration order of the
\* HashSet and color the outcome of random_rgb_color32()
RegressionLineSegment_new(points, order, color) ==
    LET fit == get_regression_line(points)
    IN  [slope |-> fit[1],
         intercept |-> fit[2],
         transformed_slope |-> fit[1],
         transformed_intercept |-> fit[2],
         points |-> points,
         transformed_points |-> points,
         start_x |-> min_by_key_x(order),
         end_x |-> max_by_key_x(order),
         draw_color |-> color]

\* point_handling.rs: ScreenLineSegment::new_from_buf; both unwraps panic on
\* an empty buffer, so the caller applies it to non-empty buffers only
new_from_buf(raw_point_buffer, order, color) ==
    [regressor |-> ph_new(raw_point_buffer),
     rightmost_pt |-> max_by_key_x(order),
     leftmost_pt |-> min_by_key_x(order),
     draw_color |-> color]

\* a push_back that ignores max_len
push_back_unbounded(buf, max_len, value) == Append(buf, value)

\* a push_back that drops the new element when the buffer is full
push_back_rejecting(buf, max_len, value) ==
    IF Len(buf) >= max_len THEN buf ELSE Append(buf, value)

\* BoundedVecDeque::push_back: at max_len the front element is displaced
push_back(buf, max_len, value) ==
    IF max_len = 0 THEN buf
    ELSE IF Len(buf) >= max_len THEN Append(Tail(buf), value)
    ELSE Append(buf, value)

\* BoundedVecDeque::push_back's return value: Some(displaced) or None
push_back_returns(buf, max_len) ==
    IF max_len = 0 \/ Len(buf) >= max_len THEN "Some" ELSE "None"

\* PointCoordsStringy::try_as_numeric over the texts the operator types:
\* <<TRUE, v>> is Some(v), <<FALSE, _>> is None
ParseF32(s) ==
    IF s = "0" THEN <<TRUE, F32(0)>>
    ELSE IF s = "1" THEN <<TRUE, F32(1)>>
    ELSE <<FALSE, NaN>>

try_as_numeric(ps) ==
    LET x == ParseF32(ps.x)
        y == ParseF32(ps.y)
    IN  IF x[1] /\ y[1] THEN <<TRUE, PointCoords(x[2], y[2])>>
        ELSE <<FALSE, PointCoords(NaN, NaN)>>

(***************************************************************************)
(* main.rs: struct App.                                                    *)
(***************************************************************************)
VARIABLES
    app,      \* the App struct
    proc,     \* "running", or the panic that ended the process
    pushed,   \* what the last push_back returned: "None" or "Some" (displaced)
    cal,      \* a calibration: its inputs and the transform estimated
    seg       \* a line segment: the set it was made from and its state

\* the pixels the operator clicks
ClickPositions == { Pt(0, 0), Pt(1, 0), Pt(1, 1) }

\* random_rgb_color32() draws one of 2^24 colors; no operation reads a
\* segment's color, so one value stands for the draw
Colors == { "red" }

Texts == { "0", "abc" }

\* App::default
App_default ==
    [gathering_state |-> "Normal",
     buffered_points |-> {},
     measurement_buffer |-> <<>>,
     measurement_buffer_real_world |-> << Pt(0, 0), Pt(0, 0) >>,
     measurement_buffer_rw_s |-> << [x |-> "0", y |-> "0"], [x |-> "0", y |-> "0"] >>,
     regression_lines |-> <<>>,
     current_transform |-> main_identity]

\* a click that also reaches the unique point set in Measurement
click_misrouted(a, pos) ==
    IF a.gathering_state = "Normal"
    THEN [a EXCEPT !.buffered_points = @ \cup {pos}]
    ELSE [a EXCEPT !.measurement_buffer = push_back(@, NUM_CALIBRATION_POINTS, pos),
                   !.buffered_points = @ \cup {pos}]

\* App::update, the secondary-click match
click(a, pos) ==
    IF a.gathering_state = "Normal"
    THEN [a EXCEPT !.buffered_points = @ \cup {pos}]
    ELSE [a EXCEPT !.measurement_buffer = push_back(@, NUM_CALIBRATION_POINTS, pos)]

\* a commit whose guard lets a single point through
process_points_buffer_unguarded(a, order, color) ==
    IF Cardinality(a.buffered_points) < 1 THEN a
    ELSE [a EXCEPT
            !.regression_lines =
                Append(@, RegressionLineSegment_new(a.buffered_points, order, color)),
            !.buffered_points = {}]

\* App::process_points_buffer
process_points_buffer(a, order, color) ==
    IF Cardinality(a.buffered_points) < 2 THEN a
    ELSE [a EXCEPT
            !.regression_lines =
                Append(@, RegressionLineSegment_new(a.buffered_points, order, color)),
            !.buffered_points = {}]

\* a loop body that overwrites the raw set with the mapped one
transform_line_segment_in_place(line, t) ==
    LET tp == main_transform_buf(line.points, t)
        fit == get_regression_line(tp)
    IN  [line EXCEPT !.points = tp,
                     !.transformed_points = tp,
                     !.transformed_slope = fit[1],
                     !.transformed_intercept = fit[2]]

\* the body of the for loop of App::transform_line_segments
transform_line_segment(line, t) ==
    LET tp == main_transform_buf(line.points, t)
        fit == get_regression_line(tp)
    IN  [line EXCEPT !.transformed_points = tp,
                     !.transformed_slope = fit[1],
                     !.transformed_intercept = fit[2]]

\* App::transform_line_segments
transform_line_segments(a) ==
    [a EXCEPT !.regression_lines =
        [i \in 1..Len(@) |-> transform_line_segment(@[i], a.current_transform)]]

\* regression_lines.retain(keep): dismissed is the set of indices whose
\* button was clicked
RECURSIVE Retain(_, _, _)
Retain(lines, dismissed, i) ==
    IF i > Len(lines) THEN <<>>
    ELSE IF i \in dismissed THEN Retain(lines, dismissed, i + 1)
    ELSE <<lines[i]>> \o Retain(lines, dismissed, i + 1)

retain(a, dismissed) ==
    [a EXCEPT !.regression_lines = Retain(@, dismissed, 1)]

\* the Calibrate button's parse loop, for i in 0..measurement_buffer.len():
\* <<panicked, app>>; unwrap() of None panics at the first bad text
RECURSIVE ParseLoop(_, _)
ParseLoop(a, i) ==
    IF i > Len(a.measurement_buffer) THEN <<FALSE, a>>
    ELSE LET r == try_as_numeric(a.measurement_buffer_rw_s[i])
         IN  IF ~r[1] THEN <<TRUE, a>>
             ELSE ParseLoop(
                    [a EXCEPT !.measurement_buffer_real_world[i] = r[2]], i + 1)

\* the Calibrate button: <<how the process goes on, app>>.  After the loop
\* the handler indexes measurement_buffer[0] and [1] (out of bounds panics)
\* and then reaches todo!("Revise transform calculation!"), which panics;
\* the linear solve and the two assignments below it are never executed.
calibrate(a) ==
    LET parsed == ParseLoop(a, 1)
    IN  IF parsed[1] THEN <<"panic_unwrap", parsed[2]>>
        ELSE IF Len(a.measurement_buffer) < 2 THEN <<"panic_index", parsed[2]>>
        ELSE <<"panic_todo", parsed[2]>>

\* the text boxes shown for i in 0..measurement_buffer.len()
edit_text(a, e) ==
    IF e[1] > Len(a.measurement_buffer) THEN a
    ELSE IF e[2] = "x" THEN [a EXCEPT !.measurement_buffer_rw_s[e[1]].x = e[3]]
    ELSE [a EXCEPT !.measurement_buffer_rw_s[e[1]].y = e[3]]

(***************************************************************************)
(* Values of cal and seg while no calibration or segment is under way.     *)
(***************************************************************************)
GridPoints == { Pt(i, j) : i \in 0..MaxCoord, j \in 0..MaxCoord }

NoPoint == PointCoords(NaN, NaN)

NoTransform == PointTransform(NaN, NaN, NaN, NaN)

CalIdle ==
    [phase |-> "idle", from_T |-> FALSE, T |-> NoTransform,
     s1 |-> NoPoint, s2 |-> NoPoint, w1 |-> NoPoint, w2 |-> NoPoint,
     est |-> NoTransform]

NoMainLine ==
    [slope |-> NaN, intercept |-> NaN,
     transformed_slope |-> NaN, transformed_intercept |-> NaN,
     points |-> {}, transformed_points |-> {},
     start_x |-> NoPoint, end_x |-> NoPoint, draw_color |-> "red"]

NoPhLine ==
    [transformed_slope |-> NaN, transformed_intercept |-> NaN,
     transform |-> NoTransform, screen_points |-> {}]

NoScreenLine ==
    [regressor |-> NoPhLine, rightmost_pt |-> NoPoint, leftmost_pt |-> NoPoint,
     draw_color |-> "red"]

\* a segment of each snapshot, made from the same set; main.rs's new and
\* new_from_buf panic on the empty set (unwrap of min_by_key's None) and make
\* no segment
SegIdle ==
    [made |-> FALSE, main_made |-> FALSE, input |-> {}, k |-> 0,
     last |-> NoTransform, ph |-> NoPhLine, main |-> NoMainLine,
     screen |-> NoScreenLine]

(***************************************************************************)
(* App::update, one frame per input.  Every frame runs the whole handler:  *)
(* click, key L, transform_line_segments, the line list, the calibration   *)
(* window; the steps whose input is absent leave the App as it is.         *)
(***************************************************************************)
Init ==
    /\ app = App_default
    /\ proc = "running"
    /\ pushed = "none"
    /\ cal = CalIdle
    /\ seg = SegIdle

ClickFrame ==
    \E pos \in ClickPositions :
        /\ proc = "running"
        /\ \/ app.gathering_state = "Measurement"
           \/ pos \in app.buffered_points
           \/ Cardinality(app.buffered_points) < MaxBuffered
        /\ app' = transform_line_segments(click(app, pos))
        /\ pushed' = IF app.gathering_state = "Measurement"
                     THEN push_back_returns(app.measurement_buffer, NUM_CALIBRATION_POINTS)
                     ELSE pushed
        /\ UNCHANGED <<proc, cal, seg>>

KeyLFrame ==
    /\ proc = "running"
    /\ \/ Cardinality(app.buffered_points) < 2
       \/ Len(app.regression_lines) < MaxLines
    /\ \E order \in IterOrders(app.buffered_points), color \in Colors :
        app' = transform_line_segments(process_points_buffer(app, order, color))
    /\ UNCHANGED <<proc, pushed, cal, seg>>

DismissFrame ==
    \E i \in 1..Len(app.regression_lines) :
        /\ proc = "running"
        /\ app' = retain(transform_line_segments(app), {i})
        /\ UNCHANGED <<proc, pushed, cal, seg>>

GoToCalibrationFrame ==
    /\ proc = "running"
    /\ app' = [transform_line_segments(app) EXCEPT !.gathering_state = "Measurement"]
    /\ UNCHANGED <<proc, pushed, cal, seg>>

CalibrateFrame ==
    /\ proc = "running"
    /\ LET r == calibrate(transform_line_segments(app))
       IN  /\ proc' = r[1]
           /\ app' = r[2]
    /\ UNCHANGED <<pushed, cal, seg>>

EditFrame ==
    \E t \in Texts :
        /\ proc = "running"
        /\ 2 <= Len(app.measurement_buffer)
        /\ app' = edit_text(transform_line_segments(app), <<2, "y", t>>)
        /\ UNCHANGED <<proc, pushed, cal, seg>>

IdleFrame ==
    /\ proc = "running"
    /\ app' = transform_line_segments(app)
    /\ UNCHANGED <<proc, pushed, cal, seg>>

vars == <<app, proc, pushed, cal, seg>>

Next ==
    \/ ClickFrame
    \/ KeyLFrame
    \/ DismissFrame
    \/ GoToCalibrationFrame
    \/ CalibrateFrame
    \/ EditFrame
    \/ IdleFrame

Spec == Init /\ [][Next]_vars

(***************************************************************************)
(* Calibration as a function: two screen points, their real-world points   *)
(* (the images under a known transform T, or any two points), and the      *)
(* transform interpolate_from_point_pairs estimates from them.             *)
(***************************************************************************)
CalTransforms ==
    { TI(a, b, dx, dy) : a \in -1..1, b \in -1..1, dx \in 0..1, dy \in -1..0 }

CalInit ==
    /\ app = App_default
    /\ proc = "running"
    /\ pushed = "none"
    /\ seg = SegIdle
    /\ \E s1 \in GridPoints, s2 \in GridPoints :
        cal = [CalIdle EXCEPT !.phase = "screen", !.s1 = s1, !.s2 = s2]

\* w = T(s) by the Transform's definition, as main.rs applies it
CalWorldFromT ==
    \E T \in CalTransforms :
        /\ cal.phase = "screen"
        /\ cal' = [cal EXCEPT !.phase = "world", !.from_T = TRUE, !.T = T,
                              !.w1 = main_transform(cal.s1, T),
                              !.w2 = main_transform(cal.s2, T)]
        /\ UNCHANGED <<app, proc, pushed, seg>>

CalWorldTyped ==
    \E w1 \in GridPoints, w2 \in GridPoints :
        /\ cal.phase = "screen"
        /\ cal' = [cal EXCEPT !.phase = "world", !.w1 = w1, !.w2 = w2]
        /\ UNCHANGED <<app, proc, pushed, seg>>

CalInterpolate ==
    /\ cal.phase = "world"
    /\ \E t \in ph_interpolate_from_point_pairs(cal.s1, cal.w1, cal.s2, cal.w2) :
        cal' = [cal EXCEPT !.phase = "done", !.est = t]
    /\ UNCHANGED <<app, proc, pushed, seg>>

CalNext ==
    \/ CalWorldFromT
    \/ CalWorldTyped
    \/ CalInterpolate

CalSpec == CalInit /\ [][CalNext]_vars

(***************************************************************************)
(* A line segment as an object: new on a point set, then transform_line.   *)
(***************************************************************************)
LinePointSets == { S \in SUBSET GridPoints : Cardinality(S) <= MaxPts }

LineTransforms ==
    { ph_identity, TI(0, 1, 0, 0), TI(2, 0, 1, 0), TI(1, 1, 0, -1),
      TI(0, 0, 1, 1), PointTransform(Norm(1, 2), F32(0), F32(0), F32(1)) }

LineInit ==
    /\ app = App_default
    /\ proc = "running"
    /\ pushed = "none"
    /\ cal = CalIdle
    /\ \E S \in LinePointSets : seg = [SegIdle EXCEPT !.input = S]

LineNew ==
    /\ ~seg.made
    /\ \E order, screen_order \in IterOrders(seg.input), color \in Colors :
        seg' = [seg EXCEPT !.made = TRUE,
                           !.main_made = (seg.input # {}),
                           !.ph = ph_new(seg.input),
                           !.main = IF seg.input # {}
                                    THEN RegressionLineSegment_new(seg.input, order, color)
                                    ELSE @,
                           !.screen = IF seg.input # {}
                                      THEN new_from_buf(seg.input, screen_order, color)
                                      ELSE @]
    /\ UNCHANGED <<app, proc, pushed, cal>>

LineTransform ==
    \E t \in LineTransforms :
        /\ seg.made
        /\ seg.k < MaxApplied
        /\ seg' = [seg EXCEPT !.k = @ + 1,
                              !.last = t,
                              !.ph = ph_transform_line(@, t),
                              !.main = IF seg.main_made
                                       THEN transform_line_segment(@, t)
                                       ELSE @,
                              !.screen = IF seg.main_made
                                         THEN ScreenLineSegment_transform_line(@, t)
                                         ELSE @]
        /\ UNCHANGED <<app, proc, pushed, cal>>

LineNext ==
    \/ LineNew
    \/ LineTransform

LineSpec == LineInit /\ [][LineNext]_vars

(***************************************************************************)
(* Properties.                                                             *)
(***************************************************************************)
\* C1: calibration round trip.  For a transform T and two distinct screen
\* points s1, s2 with w1 = T(s1), w2 = T(s2) by the Transform's definition,
\* the transform estimated from (s1, w1), (s2, w2) is T.
C1_RoundTripRecoversT ==
    (cal.phase = "done" /\ cal.from_T /\ cal.s1 # cal.s2) => cal.est = cal.T

\* C2: the identity transform is a no-op.  transform_line(identity) on a
\* freshly created segment of at least 2 points leaves the slope and the
\* intercept at the fit of the original set.
C2_IdentityIsNoOp ==
    (seg.made /\ seg.k = 1 /\ seg.last = ph_identity
        /\ Cardinality(seg.input) >= 2)
    => << seg.ph.transformed_slope, seg.ph.transformed_intercept >>
          = get_regression_line(seg.input)

\* C3: a degenerate calibration is rejected.  No transform is estimated
\* from two correspondences whose screen points are identical.
C3_DegenerateRejected == (cal.phase = "done") => (cal.s1 # cal.s2)

C5_BufferBounded == Len(app.measurement_buffer) <= NUM_CALIBRATION_POINTS

C5_Witness ==
    /\ Len(app.measurement_buffer) = NUM_CALIBRATION_POINTS
    /\ pushed = "Some"
    /\ app.gathering_state = "Measurement"

\* C6 as claimed: a click in Measurement mode on a calibration buffer that
\* holds 2 points leaves the buffer's contents and order unchanged.
C6_FullBufferRejectsPush ==
    [][(ClickFrame /\ app.gathering_state = "Measurement"
            /\ Len(app.measurement_buffer) = NUM_CALIBRATION_POINTS)
        => app'.measurement_buffer = app.measurement_buffer]_vars

\* C6 as amended: a click in Measurement mode on a calibration buffer that
\* holds 2 points displaces the oldest point: the second point becomes the
\* first, the clicked point the second, and the length stays 2.
C6_FullBufferDisplacesOldest ==
    [][(ClickFrame /\ app.gathering_state = "Measurement"
            /\ Len(app.measurement_buffer) = NUM_CALIBRATION_POINTS)
        => /\ Len(app'.measurement_buffer) = NUM_CALIBRATION_POINTS
           /\ app'.measurement_buffer[1] = app.measurement_buffer[2]
           /\ app'.measurement_buffer[2] \in ClickPositions
           /\ pushed' = "Some"]_vars

C6_Witness ==
    /\ pushed = "Some"
    /\ Len(app.measurement_buffer) = NUM_CALIBRATION_POINTS
    /\ app.measurement_buffer[1] # app.measurement_buffer[2]

\* the Calibrate button pressed on a calibration that can succeed: two
\* distinct screen points and real-world texts that parse
CommitCanSucceed(a) ==
    /\ Len(a.measurement_buffer) = NUM_CALIBRATION_POINTS
    /\ a.measurement_buffer[1] # a.measurement_buffer[2]
    /\ \A i \in 1..NUM_CALIBRATION_POINTS :
        try_as_numeric(a.measurement_buffer_rw_s[i])[1]

\* C7: gathering-mode state machine.  The state leaves Normal only on "Go
\* to calibration mode", a calibration commit in Measurement returns it to
\* Normal, and no other event changes it.
C7_GatheringStateMachine ==
    [][/\ (app.gathering_state = "Normal" /\ app'.gathering_state # "Normal")
            => GoToCalibrationFrame
       /\ (CalibrateFrame /\ app.gathering_state = "Measurement"
            /\ CommitCanSucceed(app)) => app'.gathering_state = "Normal"
       /\ (ClickFrame \/ KeyLFrame \/ DismissFrame \/ EditFrame \/ IdleFrame)
            => app'.gathering_state = app.gathering_state]_vars

\* C8: click routing.  A click in Normal inserts the point into the unique
\* point set and leaves the calibration buffer alone; a click in
\* Measurement pushes it to the calibration buffer and leaves the unique
\* point set alone; either way the lines and the transform are unchanged.
C8_ClickRouting ==
    [][ClickFrame =>
        /\ app'.regression_lines = app.regression_lines
        /\ app'.current_transform = app.current_transform
        /\ app'.gathering_state = app.gathering_state
        /\ (app.gathering_state = "Normal") =>
            /\ app'.measurement_buffer = app.measurement_buffer
            /\ \E pos \in ClickPositions :
                app'.buffered_points = app.buffered_points \cup {pos}
        /\ (app.gathering_state = "Measurement") =>
            /\ app'.buffered_points = app.buffered_points
            /\ \E pos \in ClickPositions :
                app'.measurement_buffer =
                    push_back(app.measurement_buffer, NUM_CALIBRATION_POINTS, pos)
      ]_vars

C8_Witness ==
    /\ app.gathering_state = "Measurement"
    /\ Len(app.measurement_buffer) >= 1
    /\ app.buffered_points # {}
    /\ Len(app.regression_lines) >= 1

\* C9: line commit.  Key L with at least 2 buffered points appends exactly
\* one segment whose raw set is the buffered set and clears the buffer; with
\* fewer it changes nothing.  Every stored segment has at least 2 raw points.
C9_LineCommit ==
    /\ [](\A i \in 1..Len(app.regression_lines) :
            Cardinality(app.regression_lines[i].points) >= 2)
    /\ [][KeyLFrame =>
            IF Cardinality(app.buffered_points) >= 2
            THEN /\ Len(app'.regression_lines) = Len(app.regression_lines) + 1
                 /\ SubSeq(app'.regression_lines, 1, Len(app.regression_lines))
                        = app.regression_lines
                 /\ app'.regression_lines[Len(app'.regression_lines)].points
                        = app.buffered_points
                 /\ app'.buffered_points = {}
            ELSE /\ app'.regression_lines = app.regression_lines
                 /\ app'.buffered_points = app.buffered_points]_vars

C9_Witness ==
    /\ Len(app.regression_lines) = 1
    /\ Cardinality(app.buffered_points) = 1

\* C10: re-fit is a re-projection.  After transform applications T1..Tk the
\* cached slope and intercept are the fit of the raw set mapped through Tk
\* alone and the cached transform is Tk (point_handling.rs); main.rs caches
\* the mapped set with its fit.
C10_RefitIsReprojection ==
    (seg.made /\ seg.k >= 1) =>
        /\ seg.ph.transform = seg.last
        /\ << seg.ph.transformed_slope, seg.ph.transformed_intercept >>
              = get_regression_line(ph_transform_buf(seg.input, seg.last))
        /\ seg.main_made =>
            /\ seg.main.transformed_points = main_transform_buf(seg.input, seg.last)
            /\ << seg.main.transformed_slope, seg.main.transformed_intercept >>
                  = get_regression_line(seg.main.transformed_points)

C10_Witness ==
    /\ seg.made
    /\ seg.k = MaxApplied
    /\ Cardinality(seg.input) >= 2
    /\ seg.last # ph_identity
    /\ IsFinite(seg.ph.transformed_slope)

\* C11: once a line segment is made, nothing applied to it later changes its
\* raw point set, its two extreme points or its color, and the extreme points
\* are the minimum-x and the maximum-x member of the raw set it was made from.
\* Stated of both snapshots: main.rs's RegressionLineSegment (seg.main) and
\* point_handling.rs's ScreenLineSegment (seg.screen).
C11_ExtremesOfRawSet ==
    seg.main_made =>
        /\ seg.main.points = seg.input
        /\ seg.main.start_x \in seg.input
        /\ seg.main.end_x \in seg.input
        /\ \A q \in seg.input :
              /\ ~FLess(q.x, seg.main.start_x.x)
              /\ ~FLess(seg.main.end_x.x, q.x)
        /\ seg.screen.regressor.screen_points = seg.input
        /\ seg.screen.leftmost_pt \in seg.input
        /\ seg.screen.rightmost_pt \in seg.input
        /\ \A q \in seg.input :
              /\ ~FLess(q.x, seg.screen.leftmost_pt.x)
              /\ ~FLess(seg.screen.rightmost_pt.x, q.x)

C11_KeptByStep ==
    seg.main_made =>
        /\ seg'.main.points = seg.main.points
        /\ seg'.main.start_x = seg.main.start_x
        /\ seg'.main.end_x = seg.main.end_x
        /\ seg'.main.draw_color = seg.main.draw_color
        /\ seg'.screen.regressor.screen_points = seg.screen.regressor.screen_points
        /\ seg'.screen.leftmost_pt = seg.screen.leftmost_pt
        /\ seg'.screen.rightmost_pt = seg.screen.rightmost_pt
        /\ seg'.screen.draw_color = seg.screen.draw_color

C12_MappedSetKeepsTwoPoints ==
    (cal.phase = "done" /\ cal.s1 # cal.s2) =>
        \A S \in LinePointSets :
            Cardinality(S) >= 2 => Cardinality(ph_transform_buf(S, cal.est)) >= 2

\* C13: the Calibrate handler reads the calibration buffer only at indices
\* below its length: whatever the gathering state, it never indexes slot 0 or
\* slot 1 of a measurement_buffer holding fewer than 2 points, so no frame
\* ends in the index-out-of-bounds panic.
C13_CalibrateReadsInBounds == proc # "panic_index"
====
